---- MODULE Spec2Model ----
(***************************************************************************)
(* Streamed investigation graph of the stock investigation front end:      *)
(* the page (Home) that ingests node_update messages from a WebSocket,     *)
(* the branched layout (calculateNodePositions / getConnections), the      *)
(* horizontal card list (expandedNodes, getChildNodes) and the real-time   *)
(* canvas (visualNodes / edges, pan, zoom, expansion).                     *)
(*                                                                         *)
(* Conventions.                                                            *)
(*  - A node id is a positive integer; parent_id = 0 stands for an absent  *)
(*    parent_id (undefined is falsy in `if (node.parent_id)`).             *)
(*  - A label is modelled by the set of the keywords it contains, so       *)
(*    label.includes(k) is k \in label.                                    *)
(*  - A scale is kept in hundredths (1.0 is 100) and a product is          *)
(*    truncated to a hundredth.                                            *)
(*  - A socket, a timer and an invocation of handleInvestigationStart      *)
(*    share the number of the invocation that created them; 0 is null.     *)
(***************************************************************************)
EXTENDS Integers, Sequences, FiniteSets, TLC

\* ------------------------------------------------------------------ bounds
\* Longest node list explored.
MaxNodes == 4
\* Node ids are 1..MaxId in the specifications that draw ids freely.
MaxId == 2
\* Longest node list explored where ids, parents and children vary freely.
MaxStored == 3
\* Invocations of handleInvestigationStart explored.
MaxStarts == 2
\* Longest node list explored together with the whole session.
MaxSessionNodes == 2
\* Pointer positions are (c, c) with c in 0..MaxPointer.
MaxPointer == 1
\* Translations explored are -MaxPan..MaxPan.
MaxPan == 1

\* --------------------------------------------------------------- constants
levelSpacing == 320
branchSpacing == 140
nodeWidth == 280
nodeHeight == 120
\* x of level 0
baseX == 100
\* dimensions.height of the branched view
height == 800
\* vertical stagger between two nodes of one thematic lane
laneStagger == 40
\* yOffset of the news and of the market lane (the financial lane has 0)
laneOffset == 200
\* the levels reserved before the validation lane
minReserve == 2

\* ------------------------------------------------------------------- nodes
Ids == 1..MaxId

Types == {"data_fetch", "analysis", "decision", "inference", "validation", "spawn"}

NoData == [executive_summary |-> FALSE, detailed_reasoning |-> FALSE, parent_nodes |-> << >>]

MkNode(id, type, label, parent, children, data) ==
    [id |-> id, type |-> type, label |-> label, parent_id |-> parent,
     children_ids |-> children, data |-> data]

\* label.includes(keyword)
includes(label, keyword) == keyword \in label

\* The (type, label) pairs the backend is taken to send.
KMain == [type |-> "data_fetch", label |-> {"Price Data"}]
KNews == [type |-> "data_fetch", label |-> {"News"}]
KFinancial == [type |-> "analysis", label |-> {"Earnings"}]
KMarket == [type |-> "analysis", label |-> {"Market"}]
KValidation == [type |-> "validation", label |-> {}]
KFinal == [type |-> "inference", label |-> {"Master", "Master Inference"}]
KPlain == [type |-> "data_fetch", label |-> {}]
KValidationNews == [type |-> "validation", label |-> {"News"}]

KValidationMaster == [type |-> "validation", label |-> {"Master"}]
KNewsMarket == [type |-> "analysis", label |-> {"News", "Market"}]

Kinds == {KMain, KNews, KFinancial, KMarket, KValidation, KFinal, KPlain, KValidationNews,
          KValidationMaster, KNewsMarket}

Max(S) == CHOOSE m \in S : \A k \in S : k <= m

\* ---------------------------------------------------------- classification
ClassifyKindFirst(node) ==
    IF node.type = "validation" THEN "validation"
    ELSE IF includes(node.label, "Price Data") \/ includes(node.label, "Agent Decision") THEN "main"
    ELSE IF includes(node.label, "News") \/ includes(node.label, "Headlines") THEN "news"
    ELSE IF includes(node.label, "Earnings") \/ includes(node.label, "Financial") THEN "financial"
    ELSE IF includes(node.label, "Market") \/ includes(node.label, "Sector") THEN "market"
    ELSE IF includes(node.label, "Master") \/ includes(node.label, "Final Analysis") THEN "final"
    ELSE "none"

\* The if / else-if chain of calculateNodePositions; "none" when no branch of
\* the chain is taken (the node is pushed to no group).
Classify(node) ==
    IF includes(node.label, "Price Data") \/ includes(node.label, "Agent Decision") THEN "main"
    ELSE IF includes(node.label, "News") \/ includes(node.label, "Headlines") THEN "news"
    ELSE IF includes(node.label, "Earnings") \/ includes(node.label, "Financial") THEN "financial"
    ELSE IF includes(node.label, "Market") \/ includes(node.label, "Sector") THEN "market"
    ELSE IF node.type = "validation" THEN "validation"
    ELSE IF includes(node.label, "Master") \/ includes(node.label, "Final Analysis") THEN "final"
    ELSE "none"

Thematic == {"news", "financial", "market"}

\* The indices (1-based, arrival order) of the nodes of ns that the chain puts
\* in `lane`.
LaneIdx(ns, lane) ==
    SelectSeq([i \in 1..Len(ns) |-> i], LAMBDA i : Classify(ns[i]) = lane)

\* ------------------------------------------------------------------ layout
CurrentLevelAllNodes(ns) == Len(ns)

\* let currentLevel = 0; mainFlow.forEach((_, index) => currentLevel = max(currentLevel, index + 1))
CurrentLevel(ns) == Max({0} \cup {k : k \in 1..Len(LaneIdx(ns, "main"))})

MainPositionsFromOne(ns) ==
    LET lane == LaneIdx(ns, "main") IN
    [k \in 1..Len(lane) |->
        [idx |-> lane[k], node |-> ns[lane[k]],
         x |-> baseX + k * levelSpacing,
         y |-> height \div 2,
         level |-> k, branch |-> 0]]

MainPositionsByArrivalIndex(ns) ==
    LET lane == LaneIdx(ns, "main") IN
    [k \in 1..Len(lane) |->
        [idx |-> lane[k], node |-> ns[lane[k]],
         x |-> baseX + (lane[k] - 1) * levelSpacing,
         y |-> height \div 2,
         level |-> lane[k] - 1, branch |-> 0]]

\* mainFlow.forEach((node, index) => positions.push(...))
MainPositions(ns) ==
    LET lane == LaneIdx(ns, "main") IN
    [k \in 1..Len(lane) |->
        [idx |-> lane[k], node |-> ns[lane[k]],
         x |-> baseX + (k - 1) * levelSpacing,
         y |-> height \div 2,
         level |-> k - 1, branch |-> 0]]

BranchLevelFromZero(ns, nodeIndex) == nodeIndex

\* level of the thematic node with index nodeIndex (0-based) in its lane
BranchLevel(ns, nodeIndex) == CurrentLevel(ns) + nodeIndex

\* one entry of `branches`: the lane name, its yOffset and its branchIndex
BranchPositions(ns, lane, yOffset, branchIndex) ==
    LET idxs == LaneIdx(ns, lane) IN
    [k \in 1..Len(idxs) |->
        [idx |-> idxs[k], node |-> ns[idxs[k]],
         x |-> baseX + BranchLevel(ns, k - 1) * levelSpacing,
         y |-> (height \div 2) + yOffset + ((k - 1) * laneStagger),
         level |-> BranchLevel(ns, k - 1), branch |-> branchIndex + 1]]

ValidationLevelTight(ns) ==
    CurrentLevel(ns) + Max({Len(LaneIdx(ns, "news")), Len(LaneIdx(ns, "financial")),
                            Len(LaneIdx(ns, "market"))})

ValidationLevelNoMain(ns) ==
    Max({minReserve, Len(LaneIdx(ns, "news")), Len(LaneIdx(ns, "financial")),
         Len(LaneIdx(ns, "market"))})

\* currentLevel + Math.max(2, ...branches.map(b => b.nodes.length))
ValidationLevel(ns) ==
    CurrentLevel(ns) + Max({minReserve, Len(LaneIdx(ns, "news")),
                            Len(LaneIdx(ns, "financial")), Len(LaneIdx(ns, "market"))})

ValidationPositions(ns) ==
    LET lane == LaneIdx(ns, "validation") IN
    [k \in 1..Len(lane) |->
        [idx |-> lane[k], node |-> ns[lane[k]],
         x |-> baseX + ValidationLevel(ns) * levelSpacing,
         y |-> (height \div 2) + ((k - 1) * branchSpacing),
         level |-> ValidationLevel(ns), branch |-> 0]]

FinalLevelCompact(ns) ==
    IF Len(LaneIdx(ns, "validation")) = 0 THEN ValidationLevel(ns) ELSE ValidationLevel(ns) + 1

\* level: validationLevel + 1
FinalLevel(ns) == ValidationLevel(ns) + 1

FinalPositions(ns) ==
    LET lane == LaneIdx(ns, "final") IN
    [k \in 1..Len(lane) |->
        [idx |-> lane[k], node |-> ns[lane[k]],
         x |-> baseX + FinalLevel(ns) * levelSpacing,
         y |-> height \div 2,
         level |-> FinalLevel(ns), branch |-> 0]]

\* A layout that holds back a node until the node its parent_id names is stored.
calculateNodePositionsDeferred(ns) ==
    SelectSeq(MainPositions(ns)
              \o BranchPositions(ns, "news", 0 - laneOffset, 0)
              \o BranchPositions(ns, "financial", 0, 1)
              \o BranchPositions(ns, "market", laneOffset, 2)
              \o ValidationPositions(ns)
              \o FinalPositions(ns),
              LAMBDA pos : pos.node.parent_id = 0
                           \/ \E j \in 1..Len(ns) : ns[j].id = pos.node.parent_id)

\* The array calculateNodePositions returns for the node list ns; idx is the
\* position of the entry's node in ns.
calculateNodePositions(ns) ==
    IF Len(ns) = 0 THEN << >>
    ELSE MainPositions(ns)
         \o BranchPositions(ns, "news", 0 - laneOffset, 0)
         \o BranchPositions(ns, "financial", 0, 1)
         \o BranchPositions(ns, "market", laneOffset, 2)
         \o ValidationPositions(ns)
         \o FinalPositions(ns)

\* The entries of a positions array for the node at index i of the node list.
EntriesOf(positions, i) == {k \in 1..Len(positions) : positions[k].idx = i}

\* The node at index i has an entry in the positions array.
In(positions, i) == EntriesOf(positions, i) # {}

\* The entry of the node at index i (each node is pushed to one group).
At(positions, i) == positions[CHOOSE k \in EntriesOf(positions, i) : TRUE]

Positioned(ns, i) == In(calculateNodePositions(ns), i)

PosOf(ns, i) == At(calculateNodePositions(ns), i)

\* ------------------------------------------------------------- adjacency
getChildNodesAfterParent(ns, parentId) ==
    LET first == IF \E i \in 1..Len(ns) : ns[i].id = parentId
                 THEN CHOOSE i \in 1..Len(ns) :
                        ns[i].id = parentId /\ \A j \in 1..(i - 1) : ns[j].id # parentId
                 ELSE Len(ns) + 1
    IN SelectSeq(SubSeq(ns, first, Len(ns)), LAMBDA node : node.parent_id = parentId)

\* nodes.filter(node => node.parent_id === parentId)
getChildNodes(ns, parentId) == SelectSeq(ns, LAMBDA node : node.parent_id = parentId)

\* nodes.filter(node => !node.parent_id)
getRootNodes(ns) == SelectSeq(ns, LAMBDA node : node.parent_id = 0)

\* ------------------------------------------- connections (branched view)
\* index of the first entry whose node has the id: positions.find(p => p.node.id === id);
\* 0 when find returns undefined
FindPos(positions, id) ==
    IF \E k \in 1..Len(positions) : positions[k].node.id = id
    THEN CHOOSE k \in 1..Len(positions) :
            /\ positions[k].node.id = id
            /\ \A j \in 1..(k - 1) : positions[j].node.id # id
    ELSE 0

\* {x: pos.x, y: pos.y}
Pt(pos) == [x |-> pos.x, y |-> pos.y]

\* A connection drawn from the corner of the canvas when the parent has no position.
ParentConnectionsEager(positions, k) ==
    IF positions[k].node.parent_id # 0
    THEN <<[from |-> IF FindPos(positions, positions[k].node.parent_id) # 0
                     THEN Pt(positions[FindPos(positions, positions[k].node.parent_id)])
                     ELSE [x |-> 0, y |-> 0],
            to |-> Pt(positions[k]), type |-> "parent"]>>
    ELSE << >>

\* the 'parent' connection of the entry k: pushed when the node has a
\* parent_id and an entry with that id is found
ParentConnections(positions, k) ==
    IF positions[k].node.parent_id # 0 /\ FindPos(positions, positions[k].node.parent_id) # 0
    THEN <<[from |-> Pt(positions[FindPos(positions, positions[k].node.parent_id)]),
            to |-> Pt(positions[k]), type |-> "parent"]>>
    ELSE << >>

\* the 'validation' connections of the entry k: one per id of children_ids
\* for which an entry is found
ChildConnections(positions, k) ==
    LET found == SelectSeq(positions[k].node.children_ids,
                           LAMBDA childId : FindPos(positions, childId) # 0)
    IN [j \in 1..Len(found) |->
           [from |-> Pt(positions[k]), to |-> Pt(positions[FindPos(positions, found[j])]),
            type |-> "validation"]]

RECURSIVE ConnectionsUpTo(_, _)
\* the connections pushed by the first n iterations of nodePositions.forEach
ConnectionsUpTo(positions, n) ==
    IF n = 0 THEN << >>
    ELSE ConnectionsUpTo(positions, n - 1)
         \o ParentConnections(positions, n) \o ChildConnections(positions, n)

getConnections(positions) == ConnectionsUpTo(positions, Len(positions))

\* -------------------------------------------------- view state (hundredths)
\* useState({ scale: 1, translateX: 0, translateY: 0 })
DefaultScale == 100
\* Math.max(0.1, ...)
MinScale == 10
\* Math.min(3, ...)
MaxScale == 300
\* useState({ scale: 0.8, translateX: 100, translateY: 50 })
rtDefaultScale == 80
rtDefaultTranslateX == 100
rtDefaultTranslateY == 50
\* Math.max(0.2, ...)
rtMinScale == 20
\* Math.min(2, ...)
rtMaxScale == 200
\* e.deltaY > 0 ? 0.9 : 1.1
WheelOut == 90
WheelIn == 110
\* prev.scale * 1.2 and prev.scale * 0.8
ButtonIn == 120
ButtonOut == 80

DefaultView == [scale |-> DefaultScale, translateX |-> 0, translateY |-> 0]

rtDefaultView == [scale |-> rtDefaultScale, translateX |-> rtDefaultTranslateX,
                  translateY |-> rtDefaultTranslateY]

Min2(a, b) == IF a <= b THEN a ELSE b

Max2(a, b) == IF a >= b THEN a ELSE b

\* scale * factor, the factor in hundredths
Times(scale, factor) == (scale * factor) \div 100

\* deltaY > 0 zooms out
ScaleChange(deltaY) == IF deltaY > 0 THEN WheelOut ELSE WheelIn

WheelScaleNoUpperClamp(scale, deltaY) == Max2(MinScale, Times(scale, ScaleChange(deltaY)))

\* Math.max(0.1, Math.min(3, viewState.scale * scaleChange))
WheelScale(scale, deltaY) == Max2(MinScale, Min2(MaxScale, Times(scale, ScaleChange(deltaY))))

\* Math.min(3, prev.scale * 1.2)
ZoomInScale(scale) == Min2(MaxScale, Times(scale, ButtonIn))

\* Math.max(0.1, prev.scale * 0.8)
ZoomOutScale(scale) == Max2(MinScale, Times(scale, ButtonOut))

\* Math.max(0.2, Math.min(2, prev.scale * scaleFactor))
rtWheelScale(scale, deltaY) ==
    Max2(rtMinScale, Min2(rtMaxScale, Times(scale, ScaleChange(deltaY))))

\* ------------------------------------------- real-time canvas (useEffect)
\* geometry of the grid of investigation nodes
rtBaseX == 50
rtBaseY == 200
rtColumns == 5
rtColumnSpacing == 260
rtRowSpacing == 150
rtWidth == 240
rtHeight == 100
rtLargeWidth == 400
rtLargeHeight == 200
\* Math.max(node.height, 300) of an expanded node
rtExpandedHeight == 300

\* node.type === 'inference' && (label.includes('Master Inference') ||
\* label.includes('Comprehensive') || data.executive_summary)
isLargeInferenceNode(node) ==
    node.type = "inference"
    /\ (includes(node.label, "Master Inference") \/ includes(node.label, "Comprehensive")
        \/ node.data.executive_summary)

\* The VisualNode of the node at 0-based position nodeIndex; agentActions is
\* empty, so nodeIndex is the node's index in nodes.
VisualNode(node, nodeIndex, expanded) ==
    [id |-> node.id,
     x |-> rtBaseX + (nodeIndex % rtColumns) * rtColumnSpacing,
     y |-> rtBaseY + (nodeIndex \div rtColumns) * rtRowSpacing,
     width |-> IF isLargeInferenceNode(node) THEN rtLargeWidth ELSE rtWidth,
     height |-> IF isLargeInferenceNode(node) THEN rtLargeHeight ELSE rtHeight,
     parentId |-> node.parent_id,
     isInference |-> isLargeInferenceNode(node),
     isExpanded |-> node.id \in expanded]

\* A layout that makes room below an expanded node by moving down the nodes
\* that come after it.
VisualNodesReflow(ns, expanded) ==
    [k \in 1..Len(ns) |->
        LET v == VisualNode(ns[k], k - 1, expanded)
            above == Cardinality({j \in 1..(k - 1) : ns[j].id \in expanded})
        IN [v EXCEPT !.y = @ + above * rtExpandedHeight]]

\* newVisualNodes of the effect
VisualNodesOf(ns, expanded) ==
    [k \in 1..Len(ns) |-> VisualNode(ns[k], k - 1, expanded)]

\* height of the node's rect: isExpanded ? Math.max(node.height, 300) : node.height
RenderedHeight(v) == IF v.isExpanded THEN Max2(v.height, rtExpandedHeight) ELSE v.height

RECURSIVE NormalEdges(_)
\* the parent-child edges, one per node with a parent_id, in node order
NormalEdges(ns) ==
    IF ns = << >> THEN << >>
    ELSE LET node == ns[Len(ns)]
             rest == NormalEdges(SubSeq(ns, 1, Len(ns) - 1))
         IN IF node.parent_id # 0
            THEN Append(rest, [source |-> node.parent_id, target |-> node.id,
                               type |-> "normal"])
            ELSE rest

CrossEdgesOfNodeUnfiltered(node) ==
    [k \in 1..Len(node.data.parent_nodes) |->
        [source |-> node.data.parent_nodes[k], target |-> node.id,
         type |-> "cross_validation"]]

\* the cross_validation edges of one node: data.parent_nodes without parent_id
CrossEdgesOfNode(node) ==
    LET refs == SelectSeq(node.data.parent_nodes, LAMBDA parentId : parentId # node.parent_id)
    IN [k \in 1..Len(refs) |->
           [source |-> refs[k], target |-> node.id, type |-> "cross_validation"]]

RECURSIVE CrossEdges(_)
CrossEdges(ns) ==
    IF ns = << >> THEN << >>
    ELSE CrossEdges(SubSeq(ns, 1, Len(ns) - 1)) \o CrossEdgesOfNode(ns[Len(ns)])

\* newEdges of the effect
EdgesOf(ns) == NormalEdges(ns) \o CrossEdges(ns)

\* visualNodes.find(n => n.id === id) finds a visual node
rtFound(vs, id) == \E k \in 1..Len(vs) : vs[k].id = id

\* the edges for which edges.map returns a line: both ends are found
RenderedEdges(es, vs) ==
    SelectSeq(es, LAMBDA edge : rtFound(vs, edge.source) /\ rtFound(vs, edge.target))

\* ------------------------------------------- connections (grid view)
\* nodes.findIndex(n => n.id === id), 1-based; 0 for -1
findIndex(ns, id) ==
    IF \E i \in 1..Len(ns) : ns[i].id = id
    THEN CHOOSE i \in 1..Len(ns) : ns[i].id = id /\ \A j \in 1..(i - 1) : ns[j].id # id
    ELSE 0

\* the lines the grid view draws: one per node whose parent_id is found in
\* nodes, from the index of the parent to the index of the node
GridConnections(ns) ==
    LET drawn == SelectSeq([i \in 1..Len(ns) |-> i],
                           LAMBDA i : ns[i].parent_id # 0 /\ findIndex(ns, ns[i].parent_id) # 0)
    IN [k \in 1..Len(drawn) |->
           [parentIndex |-> findIndex(ns, ns[drawn[k]].parent_id), index |-> drawn[k]]]

\* ------------------------------------------------------------------- state
VARIABLES
    nodes,              \* Home: useState<AgentNode[]>([])
    isLoading,          \* Home: useState(false)
    currentWebSocket,   \* Home: useState<WebSocket | null>(null)
    investigationData,  \* Home: the investigation id of the last response, 0 for null
    timeoutRef,         \* Home: timeoutRef.current, 0 for null
    timers,             \* the safety timers that are set and neither fired nor cleared
    pc,                 \* position of each invocation of handleInvestigationStart
    captured,           \* currentWebSocket as closed over by each invocation
    sock,               \* readyState of each WebSocket
    terminated,         \* history: an investigation_complete or error message was
                        \* handled and neither a start nor a reset came after it
    wasReset,           \* history: handleReset ran and no start came after it
    deliveredBy         \* history: for each entry of nodes, the socket whose
                        \* onmessage appended it

pageVars == <<nodes, isLoading, currentWebSocket, investigationData, timeoutRef,
              timers, pc, captured, sock, terminated, wasReset, deliveredBy>>

VARIABLES
    expandedNodes,      \* NodeVisualization (cards): useState<Set<string>>(new Set())
    showChildNodes,     \* NodeVisualization (cards): useState<Set<string>>(new Set())
    viewState,          \* NodeVisualizationBranched: {scale, translateX, translateY}
    isDragging,         \* NodeVisualizationBranched
    dragStart,          \* NodeVisualizationBranched: {x, y}
    gesture,            \* history: the pointer and the translation at the last
                        \* mouse down on the branched view
    renderedScale,      \* NodeVisualizationBranched: viewState.scale of the last
                        \* render, which the handlers of that render close over
    rtViewState,        \* RealTimeAgentVisualization: {scale, translateX, translateY}
    rtIsDragging,       \* RealTimeAgentVisualization
    rtDragStart,        \* RealTimeAgentVisualization: {x, y}
    rtGesture,          \* history: the pointer and the translation at the last
                        \* mouse down on the real-time canvas
    rtExpandedNodes,    \* RealTimeAgentVisualization: useState<Set<string>>(new Set())
    visualNodes,        \* RealTimeAgentVisualization: useState<VisualNode[]>([])
    edges               \* RealTimeAgentVisualization: useState<Edge[]>([])

cardVars == <<expandedNodes, showChildNodes>>
branchedVars == <<viewState, isDragging, dragStart, gesture, renderedScale>>
rtViewVars == <<rtViewState, rtIsDragging, rtDragStart, rtGesture>>
rtGraphVars == <<rtExpandedNodes, visualNodes, edges>>

vars == <<pageVars, cardVars, branchedVars, rtViewVars, rtGraphVars>>

Starts == 1..MaxStarts

Init ==
    /\ nodes = << >>
    /\ isLoading = FALSE
    /\ currentWebSocket = 0
    /\ investigationData = 0
    /\ timeoutRef = 0
    /\ timers = {}
    /\ pc = [i \in Starts |-> "idle"]
    /\ captured = [i \in Starts |-> 0]
    /\ sock = [i \in Starts |-> "none"]
    /\ terminated = FALSE
    /\ wasReset = FALSE
    /\ deliveredBy = << >>
    /\ expandedNodes = {}
    /\ showChildNodes = {}
    /\ viewState = DefaultView
    /\ isDragging = FALSE
    /\ dragStart = [x |-> 0, y |-> 0]
    /\ gesture = [p |-> [x |-> 0, y |-> 0], t |-> [x |-> 0, y |-> 0]]
    /\ renderedScale = DefaultScale
    /\ rtViewState = rtDefaultView
    /\ rtIsDragging = FALSE
    /\ rtDragStart = [x |-> 0, y |-> 0]
    /\ rtGesture = [p |-> [x |-> 0, y |-> 0], t |-> [x |-> 0, y |-> 0]]
    /\ rtExpandedNodes = {}
    /\ visualNodes = << >>
    /\ edges = << >>

\* ------------------------------------------------------------- Home (page)
\* The effect of RealTimeAgentVisualization, run when nodes changed.
NodesEffect ==
    /\ visualNodes' = VisualNodesOf(nodes', rtExpandedNodes)
    /\ edges' = EdgesOf(nodes')
    /\ UNCHANGED rtExpandedNodes

\* What a page handler that sets nodes leaves alone in the components.
NodesChanged == NodesEffect /\ UNCHANGED <<cardVars, branchedVars, rtViewVars>>

\* What a page handler that does not set nodes leaves alone in the components.
NodesKept == UNCHANGED <<cardVars, branchedVars, rtViewVars, rtGraphVars>>

\* ws.close(): an open socket starts closing; its close event follows.
Close(sk, s) == IF s # 0 /\ sk[s] = "open" THEN [sk EXCEPT ![s] = "closing"] ELSE sk

\* clearTimeout(timeoutRef.current) when timeoutRef.current is set
ClearTimeout(ts, ref) == ts \ {ref}

\* The effect of Home has the dependency [currentWebSocket]: when a handler has
\* changed currentWebSocket from old to new, the render that follows runs the
\* cleanup of the previous effect, which closes the socket it closed over
\* (old) and clears the timer timeoutRef.current holds by then.
CleanupSock(sk, old, new) == IF old # new THEN Close(sk, old) ELSE sk

CleanupTimers(ts, ref, old, new) == IF old # new THEN ClearTimeout(ts, ref) ELSE ts

\* A start that sends the investigate request without validating the symbol.
HandleInvestigationStartUnvalidated(i) ==
    /\ pc[i] = "idle"
    /\ \A j \in Starts : j < i => pc[j] # "idle"
    /\ ~isLoading
    /\ isLoading' = TRUE
    /\ nodes' = << >>
    /\ pc' = [pc EXCEPT ![i] = "investigate"]
    /\ captured' = [captured EXCEPT ![i] = currentWebSocket]
    /\ UNCHANGED <<currentWebSocket, investigationData, timeoutRef, timers, sock>>
    /\ terminated' = FALSE
    /\ wasReset' = FALSE
    /\ deliveredBy' = << >>
    /\ NodesChanged

\* handleInvestigationStart up to its first await.  The submit button is
\* disabled while isLoading; invocation i closes over the currentWebSocket of
\* the render it was created in.
HandleInvestigationStart(i) ==
    /\ pc[i] = "idle"
    /\ \A j \in Starts : j < i => pc[j] # "idle"
    /\ ~isLoading
    /\ isLoading' = TRUE
    /\ nodes' = << >>
    /\ pc' = [pc EXCEPT ![i] = "validate"]
    /\ captured' = [captured EXCEPT ![i] = currentWebSocket]
    /\ UNCHANGED <<currentWebSocket, investigationData, timeoutRef, timers, sock>>
    /\ terminated' = FALSE
    /\ wasReset' = FALSE
    /\ deliveredBy' = << >>
    /\ NodesChanged

\* the validate-stock response is ok: the investigate request is sent
ValidateOk(i) ==
    /\ pc[i] = "validate"
    /\ pc' = [pc EXCEPT ![i] = "investigate"]
    /\ UNCHANGED <<nodes, isLoading, currentWebSocket, investigationData, timeoutRef,
                   timers, captured, sock>>
    /\ UNCHANGED <<terminated, wasReset, deliveredBy>>
    /\ NodesKept

\* the validate-stock request fails or its response is not ok: catch block
ValidateFail(i) ==
    /\ pc[i] = "validate"
    /\ pc' = [pc EXCEPT ![i] = "done"]
    /\ isLoading' = FALSE
    /\ UNCHANGED <<nodes, currentWebSocket, investigationData, timeoutRef, timers,
                   captured, sock>>
    /\ UNCHANGED <<terminated, wasReset, deliveredBy>>
    /\ NodesKept

\* the investigate response arrives: close the captured socket, clear the
\* timer of timeoutRef, set the safety timer, open the WebSocket; then the
\* cleanup of the effect, since currentWebSocket changed.
InvestigateOk(i) ==
    /\ pc[i] = "investigate"
    /\ pc' = [pc EXCEPT ![i] = "done"]
    /\ investigationData' = i
    /\ timeoutRef' = i
    /\ currentWebSocket' = i
    /\ timers' = CleanupTimers(ClearTimeout(timers, timeoutRef) \cup {i}, timeoutRef',
                               currentWebSocket, currentWebSocket')
    /\ sock' = CleanupSock([Close(sock, captured[i]) EXCEPT ![i] = "open"],
                           currentWebSocket, currentWebSocket')
    /\ UNCHANGED <<nodes, isLoading, captured>>
    /\ UNCHANGED <<terminated, wasReset, deliveredBy>>
    /\ NodesKept

\* the investigate request throws: catch block
InvestigateFail(i) ==
    /\ pc[i] = "investigate"
    /\ pc' = [pc EXCEPT ![i] = "done"]
    /\ isLoading' = FALSE
    /\ UNCHANGED <<nodes, currentWebSocket, investigationData, timeoutRef, timers,
                   captured, sock>>
    /\ UNCHANGED <<terminated, wasReset, deliveredBy>>
    /\ NodesKept


\* setNodes(prev => [...prev, update.node])
AppendNode(ns, node) == Append(ns, node)

\* ws.onmessage with update.type === 'node_update' on socket s
OnNodeUpdate(s, node) ==
    /\ sock[s] = "open"
    /\ nodes' = AppendNode(nodes, node)
    /\ UNCHANGED <<isLoading, currentWebSocket, investigationData, timeoutRef, timers,
                   pc, captured, sock>>
    /\ UNCHANGED <<terminated, wasReset>>
    /\ deliveredBy' = Append(deliveredBy, s)
    /\ NodesChanged

\* ws.onmessage with update.type 'investigation_complete' or 'error'
OnTerminal(s) ==
    /\ sock[s] = "open"
    /\ isLoading' = FALSE
    /\ sock' = Close(sock, s)
    /\ timers' = ClearTimeout(timers, timeoutRef)
    /\ UNCHANGED <<nodes, currentWebSocket, investigationData, timeoutRef, pc, captured>>
    /\ terminated' = TRUE
    /\ UNCHANGED <<wasReset, deliveredBy>>
    /\ NodesKept

\* ws.onerror; the close event follows it
OnError(s) ==
    /\ sock[s] = "open"
    /\ isLoading' = FALSE
    /\ currentWebSocket' = 0
    /\ sock' = CleanupSock(Close(sock, s), currentWebSocket, currentWebSocket')
    /\ timers' = CleanupTimers(timers, timeoutRef, currentWebSocket, currentWebSocket')
    /\ UNCHANGED <<nodes, investigationData, timeoutRef, pc, captured>>
    /\ UNCHANGED <<terminated, wasReset, deliveredBy>>
    /\ NodesKept

\* ws.onclose, after close() or when the server closes the connection
OnClose(s) ==
    /\ sock[s] \in {"open", "closing"}
    /\ isLoading' = FALSE
    /\ currentWebSocket' = 0
    /\ sock' = CleanupSock([sock EXCEPT ![s] = "closed"], currentWebSocket, currentWebSocket')
    /\ timers' = CleanupTimers(timers, timeoutRef, currentWebSocket, currentWebSocket')
    /\ UNCHANGED <<nodes, investigationData, timeoutRef, pc, captured>>
    /\ UNCHANGED <<terminated, wasReset, deliveredBy>>
    /\ NodesKept

\* the safety timer of invocation i fires; its callback closes over the
\* currentWebSocket of the invocation.  InvestigateOk sets the timer and
\* changes currentWebSocket, and the cleanup that follows clears the timer, so
\* no timer is left to fire: the action is part of no specification.
OnTimeout(i) ==
    /\ i \in timers
    /\ isLoading' = FALSE
    /\ currentWebSocket' = IF captured[i] # 0 THEN 0 ELSE currentWebSocket
    /\ sock' = CleanupSock(Close(sock, captured[i]), currentWebSocket, currentWebSocket')
    /\ timers' = CleanupTimers(timers \ {i}, timeoutRef, currentWebSocket, currentWebSocket')
    /\ UNCHANGED <<nodes, investigationData, timeoutRef, pc, captured>>
    /\ UNCHANGED <<terminated, wasReset, deliveredBy>>
    /\ NodesKept

\* handleReset of the current render (closing its socket a second time in the
\* cleanup and clearing a null timeoutRef change nothing)
HandleReset ==
    /\ currentWebSocket' = 0
    /\ timeoutRef' = 0
    /\ sock' = CleanupSock(Close(sock, currentWebSocket), currentWebSocket, currentWebSocket')
    /\ timers' = CleanupTimers(ClearTimeout(timers, timeoutRef), timeoutRef',
                               currentWebSocket, currentWebSocket')
    /\ investigationData' = 0
    /\ nodes' = << >>
    /\ isLoading' = FALSE
    /\ UNCHANGED <<pc, captured>>
    /\ terminated' = FALSE
    /\ wasReset' = TRUE
    /\ deliveredBy' = << >>
    /\ NodesChanged

\* --------------------------------------------- NodeVisualization (cards)
\* A toggle that only ever adds the id.
ToggleAddOnly(set, nodeId) == set \cup {nodeId}

\* new Set(prev) with nodeId deleted when present, added when absent
Toggle(set, nodeId) == IF nodeId \in set THEN set \ {nodeId} ELSE set \cup {nodeId}

\* toggleNodeExpansion(node.id): the button of a large inference node that
\* carries detailed_reasoning
ToggleNodeExpansion(i) ==
    /\ i \in 1..Len(nodes)
    /\ isLargeInferenceNode(nodes[i])
    /\ nodes[i].data.detailed_reasoning
    /\ expandedNodes' = Toggle(expandedNodes, nodes[i].id)
    /\ UNCHANGED <<showChildNodes, pageVars, branchedVars, rtViewVars, rtGraphVars>>

\* toggleChildNodes(node.id): the button of a node that has child nodes
ToggleChildNodes(i) ==
    /\ i \in 1..Len(nodes)
    /\ Len(getChildNodes(nodes, nodes[i].id)) > 0
    /\ showChildNodes' = Toggle(showChildNodes, nodes[i].id)
    /\ UNCHANGED <<expandedNodes, pageVars, branchedVars, rtViewVars, rtGraphVars>>

\* ------------------------------------------------ NodeVisualizationBranched
\* The svg and the zoom buttons are rendered unless the list is empty and
\* nothing is loading.
BranchedShown == Len(nodes) > 0 \/ isLoading

BranchedFrame == UNCHANGED <<pageVars, cardVars, rtViewVars, rtGraphVars>>

handleMouseDown(e) ==
    /\ BranchedShown
    /\ isDragging' = TRUE
    /\ dragStart' = [x |-> e.x - viewState.translateX, y |-> e.y - viewState.translateY]
    /\ gesture' = [p |-> e, t |-> [x |-> viewState.translateX, y |-> viewState.translateY]]
    /\ UNCHANGED <<viewState, renderedScale>>
    /\ BranchedFrame

\* A pan that adds the offset from the anchor to the current translation.
handleMouseMoveCumulative(e) ==
    /\ BranchedShown
    /\ isDragging
    /\ viewState' = [viewState EXCEPT !.translateX = @ + (e.x - gesture.p.x),
                                      !.translateY = @ + (e.y - gesture.p.y)]
    /\ UNCHANGED <<isDragging, dragStart, gesture, renderedScale>>
    /\ BranchedFrame

handleMouseMove(e) ==
    /\ BranchedShown
    /\ isDragging
    /\ viewState' = [viewState EXCEPT !.translateX = e.x - dragStart.x,
                                      !.translateY = e.y - dragStart.y]
    /\ UNCHANGED <<isDragging, dragStart, gesture, renderedScale>>
    /\ BranchedFrame

\* onMouseUp and onMouseLeave
handleMouseUp ==
    /\ BranchedShown
    /\ isDragging' = FALSE
    /\ UNCHANGED <<viewState, dragStart, gesture, renderedScale>>
    /\ BranchedFrame

\* newScale is computed from viewState.scale of the render the handler was
\* created in, outside the updater; the updater stores it over prev.  The
\* render that the update schedules is the step BranchedRender.
handleWheel(deltaY) ==
    /\ BranchedShown
    /\ viewState' = [viewState EXCEPT !.scale = WheelScale(renderedScale, deltaY)]
    /\ UNCHANGED <<isDragging, dragStart, gesture, renderedScale>>
    /\ BranchedFrame

\* the render scheduled by a wheel event: the handlers of the new render
\* close over the current viewState
BranchedRender ==
    /\ renderedScale # viewState.scale
    /\ renderedScale' = viewState.scale
    /\ UNCHANGED <<viewState, isDragging, dragStart, gesture>>
    /\ BranchedFrame

\* a click is rendered before the next event is handled
resetView ==
    /\ BranchedShown
    /\ viewState' = DefaultView
    /\ renderedScale' = viewState'.scale
    /\ UNCHANGED <<isDragging, dragStart, gesture>>
    /\ BranchedFrame

zoomIn ==
    /\ BranchedShown
    /\ viewState' = [viewState EXCEPT !.scale = ZoomInScale(viewState.scale)]
    /\ renderedScale' = viewState'.scale
    /\ UNCHANGED <<isDragging, dragStart, gesture>>
    /\ BranchedFrame

zoomOut ==
    /\ BranchedShown
    /\ viewState' = [viewState EXCEPT !.scale = ZoomOutScale(viewState.scale)]
    /\ renderedScale' = viewState'.scale
    /\ UNCHANGED <<isDragging, dragStart, gesture>>
    /\ BranchedFrame

\* ----------------------------------------------- RealTimeAgentVisualization
rtFrame == UNCHANGED <<pageVars, cardVars, branchedVars, rtGraphVars>>

\* a mouse down outside .node-content
rtHandleMouseDown(e) ==
    /\ rtIsDragging' = TRUE
    /\ rtDragStart' = [x |-> e.x - rtViewState.translateX, y |-> e.y - rtViewState.translateY]
    /\ rtGesture' = [p |-> e, t |-> [x |-> rtViewState.translateX, y |-> rtViewState.translateY]]
    /\ UNCHANGED rtViewState
    /\ rtFrame

rtHandleMouseMove(e) ==
    /\ rtIsDragging
    /\ rtViewState' = [rtViewState EXCEPT !.translateX = e.x - rtDragStart.x,
                                          !.translateY = e.y - rtDragStart.y]
    /\ UNCHANGED <<rtIsDragging, rtDragStart, rtGesture>>
    /\ rtFrame

rtHandleMouseUp ==
    /\ rtIsDragging' = FALSE
    /\ UNCHANGED <<rtViewState, rtDragStart, rtGesture>>
    /\ rtFrame

rtHandleWheel(deltaY) ==
    /\ rtViewState' = [rtViewState EXCEPT !.scale = rtWheelScale(rtViewState.scale, deltaY)]
    /\ UNCHANGED <<rtIsDragging, rtDragStart, rtGesture>>
    /\ rtFrame

rtResetView ==
    /\ rtViewState' = rtDefaultView
    /\ UNCHANGED <<rtIsDragging, rtDragStart, rtGesture>>
    /\ rtFrame

\* A click whose rebuild moves the nodes below an expanded node.
handleNodeClickReflow(k) ==
    /\ k \in 1..Len(visualNodes)
    /\ rtExpandedNodes' = Toggle(rtExpandedNodes, visualNodes[k].id)
    /\ visualNodes' = VisualNodesReflow(nodes, rtExpandedNodes')
    /\ edges' = EdgesOf(nodes)
    /\ UNCHANGED <<pageVars, cardVars, branchedVars, rtViewVars>>

\* handleNodeClick(node.id) on the rect of a visual node, and the effect that
\* the change of expandedNodes triggers
handleNodeClick(k) ==
    /\ k \in 1..Len(visualNodes)
    /\ rtExpandedNodes' = Toggle(rtExpandedNodes, visualNodes[k].id)
    /\ visualNodes' = VisualNodesOf(nodes, rtExpandedNodes')
    /\ edges' = EdgesOf(nodes)
    /\ UNCHANGED <<pageVars, cardVars, branchedVars, rtViewVars>>

\* ---------------------------------------------------------- environments
\* Arrivals of a backend that numbers its nodes in order of creation and
\* makes each node the child of the node created before it (the first node
\* is a root); the (type, label) pair of each node is any of Kinds.
LayoutArrivals(ns) ==
    {MkNode(Len(ns) + 1, k.type, k.label, Len(ns), << >>, NoData) : k \in Kinds}

StartStream ==
    \/ HandleInvestigationStart(1)
    \/ ValidateOk(1)
    \/ InvestigateOk(1)

LayoutNext ==
    \/ StartStream
    \/ \E node \in LayoutArrivals(nodes) :
          Len(nodes) < MaxNodes /\ OnNodeUpdate(1, node)

\* One investigation streams nodes of every kind into the layout.
SpecLayout == Init /\ [][LayoutNext]_vars

\* Arrivals whose id and parent_id are any ids, of three kinds.
StoreArrivals ==
    {node \in {MkNode(id, k.type, k.label, p, << >>, NoData) :
                   id \in Ids, p \in 0..MaxId, k \in {KMain, KNews, KPlain}} :
        node.parent_id # node.id}

StoreNext ==
    \/ StartStream
    \/ \E node \in StoreArrivals :
          Len(nodes) < MaxStored /\ OnNodeUpdate(1, node)

\* One investigation streams nodes with any ids and parents, repeats included.
SpecStore == Init /\ [][StoreNext]_vars

\* Arrivals without parents: plain nodes and large inference nodes.
CanvasArrivals ==
    {MkNode(id, k.type, k.label, 0, << >>, NoData) : id \in Ids, k \in {KPlain, KFinal}}

CanvasNext ==
    \/ StartStream
    \/ \E node \in CanvasArrivals :
          Len(nodes) < MaxStored /\ OnNodeUpdate(1, node)
    \/ \E k \in 1..MaxStored : handleNodeClick(k)

\* One investigation streams nodes while the user expands and collapses them
\* on the real-time canvas.
SpecCanvas == Init /\ [][CanvasNext]_vars

Deltas == {-1, 1}

ViewNext ==
    \/ HandleInvestigationStart(1)
    \/ \E deltaY \in Deltas : handleWheel(deltaY)
    \/ BranchedRender
    \/ zoomIn
    \/ zoomOut
    \/ resetView
    \/ \E deltaY \in Deltas : rtHandleWheel(deltaY)
    \/ rtResetView

\* The zoom operations of the two canvases, in any order and number.
SpecView == Init /\ [][ViewNext]_vars

\* Two ids are enough for a parent and its child.
PairIds == {1, 2}

\* Arrivals with the ids of a pair: the parent_id is absent or the other id,
\* children_ids is empty or lists the other id, and a node without parent and
\* children may cite the other id in data.parent_nodes; the node is positioned
\* by the branched layout (KMain) or is not (KPlain).
GraphArrivalsOf(id, other) ==
    {MkNode(id, k.type, k.label, p, c, NoData) :
        k \in {KMain, KPlain}, p \in {0, other}, c \in {<< >>, <<other>>}}
    \cup {MkNode(id, k.type, k.label, 0, << >>, [NoData EXCEPT !.parent_nodes = <<other>>]) :
        k \in {KMain, KPlain}}

GraphArrivals == UNION {GraphArrivalsOf(id, 3 - id) : id \in PairIds}

GraphNext ==
    \/ StartStream
    \/ \E node \in GraphArrivals :
          Len(nodes) < MaxStored /\ OnNodeUpdate(1, node)

\* One investigation streams the nodes of a pair in any order, with and
\* without back references, repeats included.
SpecGraph == Init /\ [][GraphNext]_vars

CrossIds == {1, 2, 3}

\* the arrays a node may carry in data.parent_nodes: ids of S, none repeated
RefsOver(S) ==
    {<< >>} \cup {<<a>> : a \in S} \cup {r \in {<<a, b>> : a \in S, b \in S} : r[1] # r[2]}

\* Arrivals with id `id`: the parent_id is absent or a lower id, and
\* data.parent_nodes cites lower ids, the parent among them or not.
CrossArrivalsOf(id) ==
    {MkNode(id, KPlain.type, KPlain.label, p, << >>, [NoData EXCEPT !.parent_nodes = refs]) :
        p \in 0..(id - 1), refs \in RefsOver(1..(id - 1))}

CrossArrivals == UNION {CrossArrivalsOf(id) : id \in CrossIds}

CrossNext ==
    \/ StartStream
    \/ \E node \in CrossArrivals :
          Len(nodes) < MaxStored /\ OnNodeUpdate(1, node)

\* One investigation streams nodes that cite earlier nodes as sources, in any
\* order, repeats included.
SpecCross == Init /\ [][CrossNext]_vars

\* The first node of a session and its child, a large inference node that
\* carries detailed_reasoning.
SessionArrivals ==
    {MkNode(1, KMain.type, KMain.label, 0, << >>, NoData),
     MkNode(2, KFinal.type, KFinal.label, 1, << >>,
            [NoData EXCEPT !.detailed_reasoning = TRUE])}

\* Pointer positions on the diagonal of the canvas.
Pointers == {[x |-> c, y |-> c] : c \in 0..MaxPointer}

InPan(v) == v.translateX \in (0 - MaxPan)..MaxPan /\ v.translateY \in (0 - MaxPan)..MaxPan

PageNext ==
    \/ \E i \in Starts :
          \/ HandleInvestigationStart(i)
          \/ ValidateOk(i)
          \/ ValidateFail(i)
          \/ InvestigateOk(i)
          \/ InvestigateFail(i)
          \/ OnTerminal(i)
          \/ OnError(i)
          \/ OnClose(i)
    \/ \E s \in Starts, node \in SessionArrivals :
          Len(nodes) < MaxSessionNodes /\ OnNodeUpdate(s, node)
    \/ HandleReset

\* translations of the real-time canvas within MaxPan of the default
rtInPan(v) ==
    /\ v.translateX - rtDefaultTranslateX \in (0 - MaxPan)..MaxPan
    /\ v.translateY - rtDefaultTranslateY \in (0 - MaxPan)..MaxPan

\* The page mounts one visualization component.  A component is untouched
\* while its own state has the values it is mounted with.
CardsUntouched == expandedNodes = {} /\ showChildNodes = {}

BranchedUntouched ==
    /\ viewState = DefaultView /\ ~isDragging
    /\ renderedScale = DefaultScale
    /\ dragStart = [x |-> 0, y |-> 0]
    /\ gesture = [p |-> [x |-> 0, y |-> 0], t |-> [x |-> 0, y |-> 0]]

rtUntouched ==
    /\ rtViewState = rtDefaultView /\ ~rtIsDragging
    /\ rtDragStart = [x |-> 0, y |-> 0]
    /\ rtGesture = [p |-> [x |-> 0, y |-> 0], t |-> [x |-> 0, y |-> 0]]
    /\ rtExpandedNodes = {}

\* the cards are the mounted component
OnCards == BranchedUntouched /\ rtUntouched

\* the branched view is the mounted component
OnBranched == CardsUntouched /\ rtUntouched

\* the real-time canvas is the mounted component
OnRealTime == CardsUntouched /\ BranchedUntouched

InteractNext ==
    \/ StartStream
    \/ \E node \in SessionArrivals :
          Len(nodes) < MaxSessionNodes /\ OnNodeUpdate(1, node)
    \/ \E i \in 1..MaxSessionNodes : OnCards /\ ToggleNodeExpansion(i)
    \/ \E i \in 1..MaxSessionNodes : OnCards /\ ToggleChildNodes(i)
    \/ \E e \in Pointers : OnBranched /\ handleMouseDown(e)
    \/ \E e \in Pointers : OnBranched /\ handleMouseMove(e) /\ InPan(viewState')
    \/ OnBranched /\ handleMouseUp
    \/ \E deltaY \in Deltas :
          OnBranched /\ viewState.scale = DefaultScale /\ handleWheel(deltaY)
    \/ OnBranched /\ BranchedRender
    \/ OnBranched /\ viewState.scale = DefaultScale /\ zoomIn
    \/ OnBranched /\ viewState.scale = DefaultScale /\ zoomOut
    \/ OnBranched /\ resetView
    \/ \E k \in 1..MaxSessionNodes : OnRealTime /\ handleNodeClick(k)
    \/ \E e \in Pointers : OnRealTime /\ rtHandleMouseDown(e)
    \/ \E e \in Pointers : OnRealTime /\ rtHandleMouseMove(e) /\ rtInPan(rtViewState')
    \/ OnRealTime /\ rtHandleMouseUp
    \/ \E deltaY \in Deltas :
          OnRealTime /\ rtViewState.scale = rtDefaultScale /\ rtHandleWheel(deltaY)
    \/ OnRealTime /\ rtResetView

\* One investigation streams two nodes while the user works with the mounted
\* component: toggles cards, or pans and zooms the branched view, or pans and
\* zooms the real-time canvas and expands its nodes.  A zoom starts from the
\* default scale and a pan stays within MaxPan.
SpecInteract == Init /\ [][InteractNext]_vars

\* The whole page on its own.
SpecSession == Init /\ [][PageNext]_vars

\* The awaited requests complete, a close() is followed by its close event and
\* a safety timer that is set fires; the server may stay silent and the user
\* may do nothing.
SessionFairness ==
    /\ \A i \in Starts : WF_vars(ValidateOk(i) \/ ValidateFail(i))
    /\ \A i \in Starts : WF_vars(InvestigateOk(i) \/ InvestigateFail(i))
    /\ \A i \in Starts : WF_vars(sock[i] = "closing" /\ OnClose(i))
    /\ \A i \in Starts : WF_vars(OnTimeout(i))

SpecSessionLive == SpecSession /\ SessionFairness

Next ==
    \/ PageNext
    \/ \E i \in 1..MaxSessionNodes : ToggleNodeExpansion(i) \/ ToggleChildNodes(i)
    \/ \E e \in Pointers : handleMouseDown(e)
    \/ \E e \in Pointers : handleMouseMove(e) /\ InPan(viewState')
    \/ handleMouseUp
    \/ \E deltaY \in Deltas : viewState.scale = DefaultScale /\ handleWheel(deltaY)
    \/ BranchedRender
    \/ viewState.scale = DefaultScale /\ zoomIn
    \/ viewState.scale = DefaultScale /\ zoomOut
    \/ resetView

\* The whole session: investigations started, streamed, ended and reset while
\* the user toggles cards, pans and zooms.  A zoom gesture starts from the
\* default scale and a pan stays within MaxPan.
Spec == Init /\ [][Next]_vars

\* ================================================================= claims
Last(ns) == ns[Len(ns)]

\* nodes' is nodes with one node appended
Appended == Len(nodes') = Len(nodes) + 1 /\ SubSeq(nodes', 1, Len(nodes)) = nodes

\* the node at index i names a parent that is not in the list
Orphan(ns, i) == ns[i].parent_id # 0 /\ \A j \in 1..Len(ns) : ns[j].id # ns[i].parent_id

\* a is the parent or the child of b
Related(a, b) ==
    \/ a.parent_id = b.id
    \/ b.parent_id = a.id
    \/ \E k \in 1..Len(a.children_ids) : a.children_ids[k] = b.id
    \/ \E k \in 1..Len(b.children_ids) : b.children_ids[k] = a.id

LaneCount(ns, lane) == Cardinality({j \in 1..Len(ns) : Classify(ns[j]) = lane})

\* the nodes of the lane of the node at i that arrived before it
IndexInLane(ns, i) == Cardinality({j \in 1..(i - 1) : Classify(ns[j]) = Classify(ns[i])})

LargestThematicLane(ns) == Max({LaneCount(ns, lane) : lane \in Thematic})

\* ---- C1
\* C1 (as claimed): handling a node_update whose node is the one just handled
\* leaves the node list and the computed positions as they were.
C1_IngestIdempotent ==
    [][\A s \in Starts, node \in StoreArrivals :
          (Len(nodes) > 0 /\ Last(nodes) = node /\ OnNodeUpdate(s, node))
          => /\ nodes' = nodes
             /\ calculateNodePositions(nodes') = calculateNodePositions(nodes)]_vars

C4_ResetClearsAll ==
    [][HandleReset =>
         /\ nodes' = << >>
         /\ calculateNodePositions(nodes') = << >>
         /\ edges' = << >>
         /\ viewState' = DefaultView
         /\ expandedNodes' = {}]_vars

\* ---- C5
\* C5: the scale of the branched view lies in [0.1, 3] and the scale of the
\* real-time canvas in [0.2, 2], in every reachable state.
C5_ZoomClamp ==
    /\ viewState.scale >= MinScale /\ viewState.scale <= MaxScale
    /\ rtViewState.scale >= rtMinScale /\ rtViewState.scale <= rtMaxScale

\* zooming in has reached the upper bound of the branched view and zooming
\* out the lower bound of the real-time canvas
C5_Witness == viewState.scale = MaxScale /\ rtViewState.scale = rtMinScale

\* ---- C6
\* C6: a click that toggles the expansion of a node of the real-time canvas
\* changes the x and y of no visual node, the clicked one included, and the
\* expansion flag and the rendered height of no node with another id; the
\* flag of the clicked node flips.
C6_ExpansionKeepsPositions ==
    [][\A k \in 1..Len(visualNodes) :
          handleNodeClick(k)
          => /\ Len(visualNodes') = Len(visualNodes)
             /\ \A j \in 1..Len(visualNodes) :
                   /\ visualNodes'[j].x = visualNodes[j].x
                   /\ visualNodes'[j].y = visualNodes[j].y
                   /\ visualNodes[j].id # visualNodes[k].id
                      => /\ visualNodes'[j].isExpanded = visualNodes[j].isExpanded
                         /\ RenderedHeight(visualNodes'[j]) = RenderedHeight(visualNodes[j])
             /\ visualNodes'[k].isExpanded = ~visualNodes[k].isExpanded]_vars

\* an expanded node is followed by a collapsed one
C6_Witness ==
    \E j, k \in 1..Len(visualNodes) :
        /\ j < k
        /\ visualNodes[j].isExpanded
        /\ RenderedHeight(visualNodes[j]) = rtExpandedHeight
        /\ ~visualNodes[k].isExpanded

\* ---- C7
\* C7: when exactly one stored node c has parent_id = p and a node with id p
\* is stored, getChildNodes(p) is [c], whether c stands before or after p.
C7_ChildrenOrderIndependent ==
    \A ip, ic \in 1..Len(nodes) :
        (/\ ip # ic
         /\ nodes[ic].parent_id = nodes[ip].id
         /\ \A j \in 1..Len(nodes) : j # ic => nodes[j].parent_id # nodes[ip].id)
        => getChildNodes(nodes, nodes[ip].id) = <<nodes[ic]>>

\* the child arrived before its parent and is the parent's only child
C7_Witness ==
    \E ip, ic \in 1..Len(nodes) :
        /\ ic < ip
        /\ nodes[ic].parent_id = nodes[ip].id
        /\ \A j \in 1..Len(nodes) : j # ic => nodes[j].parent_id # nodes[ip].id
        /\ getChildNodes(nodes, nodes[ip].id) = <<nodes[ic]>>

\* ---- C8
\* C8 (as claimed): a single root node of kind data_fetch gives exactly one
\* position, at level 0 in the main lane (branch 0).
C8_RootDataFetch ==
    (Len(nodes) = 1 /\ nodes[1].parent_id = 0 /\ nodes[1].type = "data_fetch")
    => LET P == calculateNodePositions(nodes) IN
       /\ Len(P) = 1
       /\ P[1].level = 0 /\ P[1].branch = 0
       /\ Classify(nodes[1]) = "main"

\* C8 (amended): a single root node of kind data_fetch whose label contains
\* "Price Data" or "Agent Decision" gives exactly one position, at level 0 in
\* the main lane (branch 0), at x = 100.
C8_RootMainLabel ==
    (/\ Len(nodes) = 1 /\ nodes[1].parent_id = 0 /\ nodes[1].type = "data_fetch"
     /\ (includes(nodes[1].label, "Price Data") \/ includes(nodes[1].label, "Agent Decision")))
    => LET P == calculateNodePositions(nodes) IN
       /\ Len(P) = 1
       /\ P[1].idx = 1
       /\ P[1].level = 0 /\ P[1].branch = 0
       /\ P[1].x = baseX

C8_Witness ==
    /\ Len(nodes) = 1 /\ nodes[1].parent_id = 0 /\ nodes[1].type = "data_fetch"
    /\ includes(nodes[1].label, "Price Data")
    /\ Len(calculateNodePositions(nodes)) = 1

\* ---- C9
\* C9: a node whose label contains "News" and does not match the main-lane
\* rule is in the news lane (branch 1) at level = number of main-lane nodes +
\* its index within the lane, so at level >= 1 when a main-lane node exists.
C9_NewsLanePlacement ==
    LET P == calculateNodePositions(nodes) IN
    \A i \in 1..Len(nodes) :
        (/\ includes(nodes[i].label, "News")
         /\ ~(includes(nodes[i].label, "Price Data") \/ includes(nodes[i].label, "Agent Decision")))
        => /\ Cardinality(EntriesOf(P, i)) = 1
           /\ At(P, i).branch = 1
           /\ At(P, i).level = LaneCount(nodes, "main") + IndexInLane(nodes, i)
           /\ LaneCount(nodes, "main") > 0 => At(P, i).level >= 1

\* a second news node after a main-lane root, at level 2
C9_Witness ==
    \E i \in 1..Len(nodes) :
        /\ includes(nodes[i].label, "News")
        /\ Classify(nodes[1]) = "main"
        /\ IndexInLane(nodes, i) = 1
        /\ PosOf(nodes, i).level = 2

\* ---- C10
\* the levels of the entries of thematic nodes (branch 1, 2 or 3)
ThematicLevels(positions) ==
    {positions[k].level : k \in {j \in 1..Len(positions) : positions[j].branch > 0}}

\* C10 (as claimed): the level of each validation-lane node is at least
\* max(2, size of the largest thematic lane) above the highest level of a
\* thematic node.
C10_ReservePastThematic ==
    LET P == calculateNodePositions(nodes) IN
    \A i \in 1..Len(nodes) :
        (Classify(nodes[i]) = "validation" /\ ThematicLevels(P) # {})
        => At(P, i).level
             >= Max(ThematicLevels(P)) + Max({minReserve, LargestThematicLane(nodes)})

\* C10 (amended): the level of each validation-lane node is the number of
\* main-lane nodes plus max(2, size of the largest thematic lane), which is at
\* least 1 above the highest level of a thematic node.
C10_ReservePastMain ==
    LET P == calculateNodePositions(nodes) IN
    \A i \in 1..Len(nodes) :
        Classify(nodes[i]) = "validation"
        => /\ In(P, i)
           /\ At(P, i).level
                = LaneCount(nodes, "main") + Max({minReserve, LargestThematicLane(nodes)})
           /\ \A l \in ThematicLevels(P) : At(P, i).level >= l + 1

\* a validation node behind a thematic lane of three nodes
C10_Witness ==
    \E i \in 1..Len(nodes) :
        /\ Classify(nodes[i]) = "validation"
        /\ LargestThematicLane(nodes) = 3
        /\ PosOf(nodes, i).level = 3

\* ---- C11
\* C11 (as claimed): every stored node has an entry in the computed
\* positions; a node that no lane rule matches is placed in a default lane.
C11_EveryNodePositioned ==
    LET P == calculateNodePositions(nodes) IN
    \A i \in 1..Len(nodes) : In(P, i)

\* ---- C12
Abs(n) == IF n < 0 THEN 0 - n ELSE n

\* the rects (nodeWidth x nodeHeight, centred on x, y) of two entries are apart
Apart(p, q) == Abs(p.x - q.x) >= nodeWidth \/ Abs(p.y - q.y) >= nodeHeight

\* C12 (as claimed): the node rects of any two different entries of the
\* computed positions do not overlap.
C12_NoOverlap ==
    LET P == calculateNodePositions(nodes) IN
    \A k, l \in 1..Len(P) : k # l => Apart(P[k], P[l])

\* ---- C13
\* C13: every connection of the branched view runs between the points of two
\* entries of the computed positions, one of which names the other; every
\* edge the real-time canvas renders has its source and its target among the
\* visual nodes; every line of the grid view joins two stored nodes; and the
\* connection of a child is there as soon as the child and its parent both
\* are positioned, in whichever order they arrived.
C13_NoDanglingEdge ==
    \A P \in {calculateNodePositions(nodes)} :
       \A Cn \in {getConnections(P)}, R \in {RenderedEdges(edges, visualNodes)},
          G \in {GridConnections(nodes)} :
          /\ \A c \in 1..Len(Cn) :
                \E k, l \in 1..Len(P) :
                   /\ Cn[c].from = Pt(P[k]) /\ Cn[c].to = Pt(P[l])
                   /\ IF Cn[c].type = "parent"
                      THEN P[l].node.parent_id = P[k].node.id
                      ELSE \E j \in 1..Len(P[k].node.children_ids) :
                              P[k].node.children_ids[j] = P[l].node.id
          /\ \A e \in 1..Len(R) :
                /\ \E i \in 1..Len(nodes) : nodes[i].id = R[e].source
                /\ \E i \in 1..Len(nodes) : nodes[i].id = R[e].target
          /\ \A g \in 1..Len(G) :
                /\ G[g].parentIndex \in 1..Len(nodes) /\ G[g].index \in 1..Len(nodes)
                /\ nodes[G[g].index].parent_id = nodes[G[g].parentIndex].id
          /\ \A l \in 1..Len(P) :
                (P[l].node.parent_id # 0 /\ FindPos(P, P[l].node.parent_id) # 0)
                => \E c \in 1..Len(Cn) :
                      /\ Cn[c].type = "parent"
                      /\ Cn[c].to = Pt(P[l])
                      /\ Cn[c].from = Pt(P[FindPos(P, P[l].node.parent_id)])
          /\ \A i \in 1..Len(nodes) :
                (nodes[i].parent_id # 0 /\ findIndex(nodes, nodes[i].parent_id) # 0)
                => /\ \E e \in 1..Len(R) :
                         R[e].source = nodes[i].parent_id /\ R[e].target = nodes[i].id
                   /\ \E g \in 1..Len(G) : G[g].index = i

\* a positioned child arrived first, with no connection drawn for it; its
\* parent arrived later and the connection is drawn and the edge rendered
C13_Witness ==
    \E ic, ip \in 1..Len(nodes) :
        /\ ic < ip
        /\ nodes[ic].parent_id = nodes[ip].id
        /\ \A j \in 1..(ip - 1) : nodes[j].id # nodes[ip].id
        /\ getConnections(calculateNodePositions(SubSeq(nodes, 1, ip - 1))) = << >>
        /\ Len(getConnections(calculateNodePositions(nodes))) > 0
        /\ Len(RenderedEdges(edges, visualNodes)) > 0

\* ---- C14
\* C14 (as claimed): for every positioned node whose parent is positioned,
\* exactly one connection runs from the parent's point to the node's point,
\* also when the parent lists the node in children_ids.
C14_OneStructuralPerPair ==
    \A P \in {calculateNodePositions(nodes)} :
       \A Cn \in {getConnections(P)} :
          \A l \in 1..Len(P) :
             (P[l].node.parent_id # 0 /\ FindPos(P, P[l].node.parent_id) # 0)
             => Cardinality({c \in 1..Len(Cn) :
                                /\ Cn[c].from = Pt(P[FindPos(P, P[l].node.parent_id)])
                                /\ Cn[c].to = Pt(P[l])}) = 1

\* ---- C15
\* the node reuses the id of a stored node with another type or parent_id
Conflicts(ns, node) ==
    \E i \in 1..Len(ns) :
        /\ ns[i].id = node.id
        /\ (ns[i].type # node.type \/ ns[i].parent_id # node.parent_id)

\* C15 (as claimed): a node_update whose node reuses a stored id with another
\* type or parent_id is rejected: the stored node list stays what it was.
C15_DuplicateConflictRejected ==
    [][\A s \in Starts, node \in StoreArrivals :
          (Conflicts(nodes, node) /\ OnNodeUpdate(s, node)) => nodes' = nodes]_vars

\* ---- C16
\* C16 (as claimed): handling an investigation_complete or error message
\* leaves the node list as it is and loading false, and from then until the
\* next start or reset the node list stays as it is and loading stays false.
C16_TerminateStopsIngestion ==
    [][/\ \A s \in Starts : OnTerminal(s) => (nodes' = nodes /\ ~isLoading')
       /\ (terminated /\ terminated') => (nodes' = nodes /\ ~isLoading')]_vars

\* ---- C17
\* C17: an invocation sends the investigate request only in the step in which
\* its validate-stock response came back ok, and its WebSocket is opened only
\* while that investigate request is awaited; when validation fails the
\* invocation ends with loading false, no investigate request and no
\* WebSocket, and an invocation that ended without a WebSocket never gets one.
C17_ValidationPrecedesInvestigation ==
    [][\A i \in Starts :
          /\ (pc[i] # "investigate" /\ pc'[i] = "investigate")
             => (pc[i] = "validate" /\ ValidateOk(i))
          /\ (sock[i] = "none" /\ sock'[i] # "none")
             => (pc[i] = "investigate" /\ sock'[i] = "open")
          /\ ValidateFail(i)
             => (pc'[i] = "done" /\ sock'[i] = "none" /\ ~isLoading')
          /\ (pc[i] = "done" /\ sock[i] = "none")
             => (pc'[i] = "done" /\ sock'[i] = "none")]_vars

\* one invocation ended without a WebSocket while loading is false, another
\* one was validated and has its WebSocket open
C17_Witness ==
    \E i, j \in Starts :
        /\ pc[i] = "done" /\ sock[i] = "none"
        /\ pc[j] = "done" /\ sock[j] = "open"
        /\ ~isLoading

\* ---- C18
\* after differs from before in the membership of n and of no other id
Flipped(before, after, n) ==
    /\ n \in after <=> n \notin before
    /\ \A m \in (before \cup after) \ {n} : m \in after <=> m \in before

\* C18: toggleNodeExpansion, toggleChildNodes and handleNodeClick flip the
\* membership of the id they are called with and of no other id, and toggling
\* an id twice gives back the set.
C18_ToggleFlipsOne ==
    [][/\ \A i \in 1..Len(nodes) :
             /\ ToggleNodeExpansion(i) => Flipped(expandedNodes, expandedNodes', nodes[i].id)
             /\ ToggleChildNodes(i) => Flipped(showChildNodes, showChildNodes', nodes[i].id)
       /\ \A k \in 1..Len(visualNodes) :
             handleNodeClick(k) => Flipped(rtExpandedNodes, rtExpandedNodes', visualNodes[k].id)
       /\ \A n \in 1..MaxSessionNodes :
             /\ Toggle(Toggle(expandedNodes', n), n) = expandedNodes'
             /\ Toggle(Toggle(showChildNodes', n), n) = showChildNodes'
             /\ Toggle(Toggle(rtExpandedNodes', n), n) = rtExpandedNodes']_vars

\* the first of two visual nodes was expanded by a click
C18_Witness ==
    /\ Len(visualNodes) = 2
    /\ visualNodes[1].id # visualNodes[2].id
    /\ rtExpandedNodes = {visualNodes[1].id}

\* ---- C19
\* the translation of view v is t0 + (p - p0) for the gesture g = (p0, t0)
AtOffset(v, g, p) ==
    /\ v.translateX = g.t.x + (p.x - g.p.x)
    /\ v.translateY = g.t.y + (p.y - g.p.y)

\* C19: on both canvases a mouse move to pointer p during a drag that began
\* at pointer p0 with translation t0 gives the translation t0 + (p - p0),
\* whatever moves, wheel events or view resets came between; a move to p0
\* gives t0; the scale is left unchanged by mouse down, move and up.
C19_PanRelativeToAnchor ==
    [][/\ \A e \in Pointers :
             /\ handleMouseMove(e)
                => /\ AtOffset(viewState', gesture, e)
                   /\ e = gesture.p
                      => (viewState'.translateX = gesture.t.x
                          /\ viewState'.translateY = gesture.t.y)
             /\ rtHandleMouseMove(e)
                => /\ AtOffset(rtViewState', rtGesture, e)
                   /\ e = rtGesture.p
                      => (rtViewState'.translateX = rtGesture.t.x
                          /\ rtViewState'.translateY = rtGesture.t.y)
             /\ (handleMouseDown(e) \/ handleMouseMove(e))
                => viewState'.scale = viewState.scale
             /\ (rtHandleMouseDown(e) \/ rtHandleMouseMove(e))
                => rtViewState'.scale = rtViewState.scale
       /\ handleMouseUp => viewState' = viewState
       /\ rtHandleMouseUp => rtViewState' = rtViewState]_vars

\* a second gesture began at pointer (1, 1) with translation (1, 1) and a
\* move to (0, 0) brought the translation to (0, 0), in a zoomed view
C19_Witness ==
    /\ isDragging
    /\ gesture.p.x = 1 /\ gesture.t.x = 1
    /\ viewState.translateX = 0 /\ viewState.translateY = 0
    /\ viewState.scale # DefaultScale

\* ---- C20
\* a step of one of the interaction handlers of the three components
UserInteraction ==
    \/ \E e \in Pointers :
          \/ handleMouseDown(e) \/ handleMouseMove(e)
          \/ rtHandleMouseDown(e) \/ rtHandleMouseMove(e)
    \/ handleMouseUp \/ rtHandleMouseUp
    \/ \E deltaY \in Deltas : handleWheel(deltaY) \/ rtHandleWheel(deltaY)
    \/ zoomIn \/ zoomOut \/ resetView \/ rtResetView
    \/ \E i \in 1..Len(nodes) : ToggleNodeExpansion(i) \/ ToggleChildNodes(i)
    \/ \E k \in 1..Len(visualNodes) : handleNodeClick(k)

C21_ValidationPastMainAndThematic ==
    \A P \in {calculateNodePositions(nodes)} :
       \A i, j \in 1..Len(nodes) :
          (Classify(nodes[i]) = "validation"
           /\ Classify(nodes[j]) \in Thematic \cup {"main"})
          => /\ In(P, i) /\ In(P, j)
             /\ At(P, i).level > At(P, j).level

\* a validation node one level past the last node of a thematic lane that
\* itself starts behind a main-lane node
C21_Witness ==
    \E i, j, k \in 1..Len(nodes) :
        /\ Classify(nodes[i]) = "validation"
        /\ Classify(nodes[j]) \in Thematic
        /\ Classify(nodes[k]) = "main"
        /\ PosOf(nodes, i).level = PosOf(nodes, j).level + 1
        /\ PosOf(nodes, j).level > PosOf(nodes, k).level + 1

\* ---- C22
\* C22: node_update appends at the end of the node list, and in the positions
\* computed from the new list the k-th main-lane node in arrival order (k
\* from 0) has level k, x = 100 + k * 320 and y = height / 2.
C22_MainLanePlacement ==
    [][/\ Len(nodes') > Len(nodes) => Appended
       /\ \A P \in {calculateNodePositions(nodes')} :
             \A i \in 1..Len(nodes') :
                Classify(nodes'[i]) = "main"
                => /\ In(P, i)
                   /\ At(P, i).level = IndexInLane(nodes', i)
                   /\ At(P, i).x = baseX + IndexInLane(nodes', i) * levelSpacing
                   /\ At(P, i).y = height \div 2]_vars

\* two main-lane nodes with a node of another lane in between: the later one
\* is third in the list and at level 1
C22_Witness ==
    \E i, j \in 1..Len(nodes) :
        /\ j = i + 2
        /\ Classify(nodes[i]) = "main" /\ Classify(nodes[j]) = "main"
        /\ Classify(nodes[i + 1]) \in Thematic
        /\ PosOf(nodes, i).level = 0
        /\ PosOf(nodes, j).level = 1
        /\ PosOf(nodes, j).x = baseX + levelSpacing

\* ---- C23
\* C23: every final-lane node is positioned at the vertical centre and at
\* level (number of main-lane nodes) + max(2, size of the largest thematic
\* lane) + 1, which is one past the level of every validation-lane node, with
\* or without validation nodes in the list.
C23_FinalPlacement ==
    \A P \in {calculateNodePositions(nodes)} :
       \A i \in 1..Len(nodes) :
          Classify(nodes[i]) = "final"
          => /\ In(P, i)
             /\ At(P, i).level
                  = LaneCount(nodes, "main")
                    + Max({minReserve, LargestThematicLane(nodes)}) + 1
             /\ At(P, i).x = baseX + At(P, i).level * levelSpacing
             /\ At(P, i).y = height \div 2
             /\ \A j \in 1..Len(nodes) :
                   Classify(nodes[j]) = "validation"
                   => At(P, i).level = At(P, j).level + 1

\* a final node behind one main-lane node, with no validation node in the list
C23_Witness ==
    \E i \in 1..Len(nodes) :
        /\ Classify(nodes[i]) = "final"
        /\ LaneCount(nodes, "validation") = 0
        /\ LaneCount(nodes, "main") = 1
        /\ PosOf(nodes, i).level = 4
        /\ PosOf(nodes, i).y = height \div 2

\* ---- C24
\* the six rules, each by the test it makes on one node
Matches(node, lane) ==
    CASE lane = "main" -> includes(node.label, "Price Data") \/ includes(node.label, "Agent Decision")
      [] lane = "news" -> includes(node.label, "News") \/ includes(node.label, "Headlines")
      [] lane = "financial" -> includes(node.label, "Earnings") \/ includes(node.label, "Financial")
      [] lane = "market" -> includes(node.label, "Market") \/ includes(node.label, "Sector")
      [] lane = "validation" -> node.type = "validation"
      [] lane = "final" -> includes(node.label, "Master") \/ includes(node.label, "Final Analysis")

RuleOrder == <<"main", "news", "financial", "market", "validation", "final">>

\* the lane of the first rule of RuleOrder the node matches, "none" if none
FirstMatch(node) ==
    LET hits == {k \in 1..Len(RuleOrder) : Matches(node, RuleOrder[k])} IN
    IF hits = {} THEN "none"
    ELSE RuleOrder[CHOOSE k \in hits : \A l \in hits : k <= l]

\* the lane an entry of the positions array was placed by, read off its
\* branch and level
LaneOfEntry(ns, pos) ==
    IF pos.branch = 1 THEN "news"
    ELSE IF pos.branch = 2 THEN "financial"
    ELSE IF pos.branch = 3 THEN "market"
    ELSE IF pos.level = ValidationLevel(ns) + 1 THEN "final"
    ELSE IF pos.level = ValidationLevel(ns) THEN "validation"
    ELSE "main"

\* C24: every node has at most one entry in the computed positions; it has
\* none exactly when it matches no rule, and otherwise its entry is placed by
\* the lane of the first rule it matches in the order main, news, financial,
\* market, validation, final; two nodes with equal label and type are placed
\* by the same lane wherever they stand in the list; and a validation-type
\* node whose label contains "News" is placed by the news lane.
C24_FirstMatchWins ==
    \A P \in {calculateNodePositions(nodes)} :
       \A i \in 1..Len(nodes) :
          /\ Cardinality(EntriesOf(P, i)) <= 1
          /\ In(P, i) <=> FirstMatch(nodes[i]) # "none"
          /\ In(P, i) => LaneOfEntry(nodes, At(P, i)) = FirstMatch(nodes[i])
          /\ \A j \in 1..Len(nodes) :
                (nodes[j].label = nodes[i].label /\ nodes[j].type = nodes[i].type
                 /\ In(P, i))
                => In(P, j) /\ LaneOfEntry(nodes, At(P, j)) = LaneOfEntry(nodes, At(P, i))
          /\ (nodes[i].type = "validation" /\ includes(nodes[i].label, "News"))
             => In(P, i) /\ At(P, i).branch = 1

\* a validation-type node labelled "News" placed in the news lane behind a
\* plain validation node, next to a node that matches two label rules and a
\* validation-type node labelled "Master"
C24_Witness ==
    \E i, j, k, l \in 1..Len(nodes) :
        /\ j < i
        /\ nodes[i].type = "validation" /\ includes(nodes[i].label, "News")
        /\ PosOf(nodes, i).branch = 1
        /\ nodes[j].type = "validation" /\ nodes[j].label = {}
        /\ PosOf(nodes, j).level = ValidationLevel(nodes)
        /\ Cardinality({r \in 1..Len(RuleOrder) : Matches(nodes[k], RuleOrder[r])}) = 2
        /\ includes(nodes[k].label, "Market") /\ PosOf(nodes, k).branch = 1
        /\ nodes[l].type = "validation" /\ includes(nodes[l].label, "Master")
        /\ PosOf(nodes, l).level = ValidationLevel(nodes)

\* ---- C25
\* the ids node cites in data.parent_nodes other than its own parent_id
CrossRefs(node) ==
    {k \in 1..Len(node.data.parent_nodes) : node.data.parent_nodes[k] # node.parent_id}

\* the edges of the given type from source to target
EdgesBetween(es, type, source, target) ==
    {e \in 1..Len(es) : es[e].type = type /\ es[e].source = source /\ es[e].target = target}

RECURSIVE SumOver(_, _)
SumOver(f, n) == IF n = 0 THEN 0 ELSE f[n] + SumOver(f, n - 1)

\* C25: the edges of the real-time canvas are tagged normal or
\* cross_validation; every stored node has a cross_validation edge from each
\* id it cites in data.parent_nodes other than its own parent_id, these are
\* all the cross_validation edges, so each of them comes from a stored node
\* that cites its source and has another parent_id; and while no id is stored
\* twice, no cross_validation edge has the source and target of a normal edge.
C25_CrossEdgesSkipParent ==
    /\ \A e \in 1..Len(edges) : edges[e].type \in {"normal", "cross_validation"}
    /\ \A i \in 1..Len(nodes) :
          \A k \in CrossRefs(nodes[i]) :
             EdgesBetween(edges, "cross_validation",
                          nodes[i].data.parent_nodes[k], nodes[i].id) # {}
    /\ Cardinality({e \in 1..Len(edges) : edges[e].type = "cross_validation"})
         = SumOver([i \in 1..Len(nodes) |-> Cardinality(CrossRefs(nodes[i]))], Len(nodes))
    /\ \A e \in 1..Len(edges) :
          edges[e].type = "cross_validation"
          => \E i \in 1..Len(nodes) :
                /\ nodes[i].id = edges[e].target
                /\ nodes[i].parent_id # edges[e].source
                /\ \E k \in CrossRefs(nodes[i]) :
                      nodes[i].data.parent_nodes[k] = edges[e].source
    /\ (\A i, j \in 1..Len(nodes) : nodes[i].id = nodes[j].id => i = j)
       => \A e \in 1..Len(edges) :
             edges[e].type = "cross_validation"
             => EdgesBetween(edges, "normal", edges[e].source, edges[e].target) = {}

\* a stored node cites its own parent and another node: it has a normal edge
\* from the parent, a cross_validation edge from the other node, and both
\* are rendered
C25_Witness ==
    \E i \in 1..Len(nodes) :
        /\ nodes[i].parent_id # 0
        /\ \E k \in 1..Len(nodes[i].data.parent_nodes) :
              nodes[i].data.parent_nodes[k] = nodes[i].parent_id
        /\ CrossRefs(nodes[i]) # {}
        /\ EdgesBetween(RenderedEdges(edges, visualNodes), "normal",
                        nodes[i].parent_id, nodes[i].id) # {}
        /\ \E k \in CrossRefs(nodes[i]) :
              EdgesBetween(RenderedEdges(edges, visualNodes), "cross_validation",
                           nodes[i].data.parent_nodes[k], nodes[i].id) # {}

\* ---- C26
\* C26 (as claimed): whenever isLoading is true it eventually becomes false,
\* given that the awaited requests complete and a set safety timer fires.
C26_LoadingEnds == isLoading ~> ~isLoading

\* ---- C27
\* C27 (as claimed): after handleReset and until the next start, the node
\* list is empty, isLoading is false and no WebSocket is open, also when an
\* earlier start was still awaiting a request at the reset.
C27_ResetHolds ==
    wasReset => /\ nodes = << >>
                /\ ~isLoading
                /\ \A s \in Starts : sock[s] # "open"

\* ---- C28
\* the investigation started last
LastStarted == Max({0} \cup {i \in Starts : pc[i] # "idle"})

\* C28 (as claimed): at most one WebSocket is open, and every entry of the
\* node list was appended by the socket of the investigation started last.
C28_SingleLiveStream ==
    /\ Cardinality({s \in Starts : sock[s] = "open"}) <= 1
    /\ \A k \in 1..Len(nodes) : deliveredBy[k] = LastStarted

\* ---- C29
\* C29 (as claimed): the investigate response leaves the safety timer of the
\* investigation set, and when the timer fires the investigation's socket is
\* no longer open and isLoading is false.
C29_TimeoutForcesCompletion ==
    [][\A i \in Starts :
          /\ InvestigateOk(i) => i \in timers'
          /\ OnTimeout(i) => (sock'[i] # "open" /\ ~isLoading')]_vars

\* ---- C30
\* C30 (as claimed): every wheel event, on the branched view and on the
\* real-time canvas, replaces the current scale by the clamped step applied
\* to the current scale, whether or not a render came since the last wheel
\* event; so k events in one direction apply the step k times.
C30_EveryWheelEventCounts ==
    [][/\ \A deltaY \in Deltas :
             handleWheel(deltaY) => viewState'.scale = WheelScale(viewState.scale, deltaY)
       /\ \A deltaY \in Deltas :
             rtHandleWheel(deltaY)
             => rtViewState'.scale = rtWheelScale(rtViewState.scale, deltaY)]_vars

====
